---- MODULE Spec2Model ----
(***************************************************************************)
(* Body-text flow of the letterhead template (templates/letterhead.py,     *)
(* generate): the greedy word-wrap wrap_paragraph and the paginating loop  *)
(* that places the wrapped lines and the blank separator lines.            *)
(*                                                                         *)
(* Text is a sequence of one-character strings.  Lengths are in points.    *)
(* The log `out` records what the loop hands to the canvas: one PlaceLine  *)
(* per text_obj.textLine call (with the text object's cursor at that       *)
(* moment) and one PageBreak per c.showPage call.                          *)
(***************************************************************************)
EXTENDS Integers, Sequences, FiniteSets

VARIABLES
    body_content,     \* the list of paragraphs
    available_width,  \* w - left_margin - right_margin
    leading,          \* line height
    h,                \* page height
    top_margin,       \* distance of the first baseline of a page from its top
    bottom_reserved,  \* height reserved for the footer
    body_start_y,     \* where the body is asked to start on the first page
    y,                \* the loop's page cursor
    text_y,           \* the cursor of the current text object
    p_idx,            \* index in body_content of `paragraph`
    wrapped,          \* wrap_paragraph(paragraph)
    ln_idx,           \* index in wrapped of `ln`
    pc,               \* "para" | "line" | "sep" | "done"
    out,              \* the instructions emitted so far
    template,         \* the template module whose generate() runs
    step,             \* position in that generate()
    brand_json,       \* content of assets/brand_colors.json
    brand,            \* the mapping load_brand_colors returned
    gstate,           \* the canvas graphics state: origin and fill alpha
    state_stack,      \* the canvas stack of saved graphics states
    drawn,            \* what was drawn, with the graphics state in effect
    raised            \* the exception that left generate(), or "none"

flow_vars == <<body_content, available_width, leading, h, top_margin,
               bottom_reserved, body_start_y, y, text_y, p_idx, wrapped,
               ln_idx, pc, out>>

template_vars == <<template, step, brand_json, brand, gstate, state_stack,
                   drawn, raised>>

vars == <<flow_vars, template_vars>>

geometry == <<body_content, available_width, leading, h, top_margin,
              bottom_reserved, body_start_y>>

----------------------------------------------------------------------------
(* Bounds of the model *)

MaxParas == 3

MaxParaLen == 5

MaxLeading == 2

PageH == 6

(* Program constant *)
font_size == 11

----------------------------------------------------------------------------
(* Text *)

Alphabet == {"a", "W", " ", "?"}

Texts(n) == UNION {[1..k -> Alphabet] : k \in 0..n}

SeqsUpTo(S, n) == UNION {[1..k -> S] : k \in 0..n}

Min(a, b) == IF a <= b THEN a ELSE b

\* int(): Python's truncation toward zero of the quotient n / d, d > 0
TruncDiv(n, d) == IF n >= 0 THEN n \div d ELSE -((-n) \div d)

\* str.split(): the maximal runs of non-whitespace characters, in order
RECURSIVE SplitFrom(_, _, _, _)
SplitFrom(s, i, word, acc) ==
    IF i > Len(s)
    THEN IF word = <<>> THEN acc ELSE Append(acc, word)
    ELSE IF s[i] = " "
         THEN SplitFrom(s, i + 1, <<>>,
                        IF word = <<>> THEN acc ELSE Append(acc, word))
         ELSE SplitFrom(s, i + 1, Append(word, s[i]), acc)

split(s) == SplitFrom(s, 1, <<>>, <<>>)

----------------------------------------------------------------------------
(* The measuring collaborator c.stringWidth(text, "Helvetica", 11): the    *)
(* sum of the glyph advances, or an exception when the text holds a glyph  *)
(* the font cannot measure ("?").                                          *)

GlyphWidth(ch) ==
    CASE ch = "a" -> 6
      [] ch = "W" -> 10
      [] ch = " " -> 3
      [] OTHER    -> 0

RECURSIVE SumWidths(_, _)
SumWidths(text, i) ==
    IF i > Len(text) THEN 0 ELSE GlyphWidth(text[i]) + SumWidths(text, i + 1)

stringWidth(text) == SumWidths(text, 1)

stringWidthRaises(text) == \E i \in 1..Len(text) : text[i] = "?"

----------------------------------------------------------------------------
(* wrap_paragraph *)

max_chars == TruncDiv(2 * available_width, font_size)

FitsMeasuredNoSpace(test) ==
    stringWidth(test) - GlyphWidth(" ") <= available_width

FitsMeasuredStrict(test) == stringWidth(test) < available_width

FitsMeasuredAlways(test) == TRUE

\* line 136: the measured tentative line is kept when it fits
FitsMeasured(test) == stringWidth(test) <= available_width

FitsFallbackOffByOne(test) == ~(Len(test) >= max_chars)

\* lines 128-129: the character-count fallback keeps the tentative line
\* unless it has more than max_chars characters
FitsFallback(test) == ~(Len(test) > max_chars)

\* lines 122-140: the decision for one tentative line
Accepts(test) ==
    IF stringWidthRaises(test) THEN FitsFallback(test) ELSE FitsMeasured(test)

CloseLinesDropLast(lines, cur) == lines

\* line 141: the buffer is the paragraph's last line
CloseLines(lines, cur) == Append(lines, cur)

RECURSIVE WrapWords(_, _, _)
WrapWords(cur, rest, lines) ==
    IF rest = <<>>
    THEN CloseLines(lines, cur)
    ELSE LET wrd  == Head(rest)
             test == cur \o <<" ">> \o wrd
         IN  IF Accepts(test)
             THEN WrapWords(test, Tail(rest), lines)
             ELSE WrapWords(wrd, Tail(rest), Append(lines, cur))

NoLinesForEmpty == <<>>

\* lines 117-118: a paragraph without words is one empty line
EmptyParagraphLines == << <<>> >>

wrap_paragraph(paragraph) ==
    LET words == split(paragraph)
    IN  IF words = <<>>
        THEN EmptyParagraphLines
        ELSE WrapWords(words[1], Tail(words), <<>>)

----------------------------------------------------------------------------
(* The paginating loop *)

max_start == h - top_margin

StartY == Min(body_start_y, max_start)

NewPageYKeepsStart == StartY

\* lines 166, 186: the cursor at the top of a new page
NewPageY == h - top_margin

NeedsPageBreakNoLeading == y < bottom_reserved

NeedsPageBreakInclusive == y - leading <= bottom_reserved

\* lines 153, 177: the pending line would run into the footer
NeedsPageBreak == y - leading < bottom_reserved

\* line 176: compared by value with the last paragraph
NeedsSeparator == body_content[p_idx] # body_content[Len(body_content)]

PageBreak == [op |-> "PageBreak"]

PlaceLineAt(text, at, sep) ==
    [op |-> "PlaceLine", text |-> text, y |-> at, para |-> p_idx, sep |-> sep]

\* lines 153-173 and 177-192: page break when needed, then textLine and
\* the cursor moves down one leading
Place(text, sep) ==
    IF NeedsPageBreak
    THEN /\ out' = out \o <<PageBreak, PlaceLineAt(text, NewPageY, sep)>>
         /\ text_y' = NewPageY - leading
         /\ y' = NewPageY - leading
    ELSE /\ out' = Append(out, PlaceLineAt(text, text_y, sep))
         /\ text_y' = text_y - leading
         /\ y' = y - leading

\* lines 149-150
NextParagraph ==
    /\ pc = "para"
    /\ p_idx <= Len(body_content)
    /\ wrapped' = wrap_paragraph(body_content[p_idx])
    /\ ln_idx' = 1
    /\ pc' = "line"
    /\ UNCHANGED template_vars
    /\ UNCHANGED <<geometry, y, text_y, p_idx, out>>

\* a page break that re-runs the check instead of placing the line
PlaceLineRecheckAfterBreak ==
    /\ pc = "line"
    /\ ln_idx <= Len(wrapped)
    /\ IF NeedsPageBreak
       THEN /\ out' = Append(out, PageBreak)
            /\ text_y' = NewPageY
            /\ y' = NewPageY
            /\ ln_idx' = ln_idx
       ELSE /\ Place(wrapped[ln_idx], FALSE)
            /\ ln_idx' = ln_idx + 1
    /\ UNCHANGED template_vars
    /\ UNCHANGED <<geometry, p_idx, wrapped, pc>>

\* lines 151-173
PlaceLine ==
    /\ pc = "line"
    /\ ln_idx <= Len(wrapped)
    /\ Place(wrapped[ln_idx], FALSE)
    /\ ln_idx' = ln_idx + 1
    /\ UNCHANGED template_vars
    /\ UNCHANGED <<geometry, p_idx, wrapped, pc>>

\* line 151, exhausted
EndOfLines ==
    /\ pc = "line"
    /\ ln_idx > Len(wrapped)
    /\ pc' = "sep"
    /\ UNCHANGED template_vars
    /\ UNCHANGED <<geometry, y, text_y, p_idx, wrapped, ln_idx, out>>

\* lines 176-192
AddSeparator ==
    /\ pc = "sep"
    /\ NeedsSeparator
    /\ Place(<<>>, TRUE)
    /\ p_idx' = p_idx + 1
    /\ pc' = "para"
    /\ UNCHANGED template_vars
    /\ UNCHANGED <<geometry, wrapped, ln_idx>>

\* line 176, false
SkipSeparator ==
    /\ pc = "sep"
    /\ ~NeedsSeparator
    /\ p_idx' = p_idx + 1
    /\ pc' = "para"
    /\ UNCHANGED template_vars
    /\ UNCHANGED <<geometry, y, text_y, wrapped, ln_idx, out>>

\* line 149 exhausted, line 195
Finish ==
    /\ pc = "para"
    /\ p_idx > Len(body_content)
    /\ pc' = "done"
    /\ UNCHANGED template_vars
    /\ UNCHANGED <<geometry, y, text_y, p_idx, wrapped, ln_idx, out>>

Next ==
    \/ NextParagraph
    \/ PlaceLine
    \/ EndOfLines
    \/ AddSeparator
    \/ SkipSeparator
    \/ Finish

\* lines 112-113, 144-147: the state when the loop is entered
LoopEntry ==
    /\ y = StartY
    /\ text_y = StartY
    /\ p_idx = 1
    /\ wrapped = <<>>
    /\ ln_idx = 1
    /\ pc = "para"
    /\ out = <<>>

InitialGState == [origin |-> <<0, 0>>, fill_alpha |-> 100]

\* no simple template runs: the body-text flow is looked at on its own
NoTemplate ==
    /\ template = "none"
    /\ step = 0
    /\ brand_json = <<>>
    /\ brand = <<>>
    /\ gstate = InitialGState
    /\ state_stack = <<>>
    /\ drawn = <<>>
    /\ raised = "none"

\* paragraphs of the layout specification
Pool ==
    { <<>>, <<" ">>, <<"a">>, <<"a", " ", "a">>, <<"a", " ", "W", " ", "a">> }

Init ==
    /\ body_content \in SeqsUpTo(Pool, MaxParas)
    /\ available_width \in {9, 22}
    /\ leading \in 1..MaxLeading
    /\ h = PageH
    /\ top_margin \in {1, PageH - 1}
    /\ bottom_reserved \in {0, 2}
    /\ body_start_y \in {1, 3, PageH}
    /\ LoopEntry
    /\ NoTemplate

Spec == Init /\ [][Next]_vars

\* every paragraph of at most MaxParaLen characters, alone or followed by
\* a second paragraph, in four column widths
InitWrap ==
    /\ \E p \in Texts(MaxParaLen) :
           body_content \in { <<p>>, <<p, <<"a">> >> }
    /\ available_width \in {9, 15, 22, 28}
    /\ leading = 1
    /\ h = PageH
    /\ top_margin = 1
    /\ bottom_reserved = 0
    /\ body_start_y \in {2, PageH}
    /\ LoopEntry
    /\ NoTemplate

SpecWrap == InitWrap /\ [][Next]_vars

----------------------------------------------------------------------------
(* templates/common.py: load_brand_colors *)

\* a JSON value: a string (a sequence of characters) or something else
Str(chars) == [type |-> "str", s |-> chars]

NotAString == [type |-> "number", s |-> <<>>]

HexLower == <<"0", "1", "2", "3", "4", "5", "6", "7", "8", "9",
              "a", "b", "c", "d", "e", "f">>

HexUpper == <<"A", "B", "C", "D", "E", "F">>

IsHexDigit(ch) ==
    \/ \E i \in DOMAIN HexLower : HexLower[i] = ch
    \/ \E i \in DOMAIN HexUpper : HexUpper[i] = ch

\* int(ch, 16)
HexValue(ch) ==
    IF \E i \in DOMAIN HexLower : HexLower[i] = ch
    THEN (CHOOSE i \in DOMAIN HexLower : HexLower[i] = ch) - 1
    ELSE (CHOOSE i \in DOMAIN HexUpper : HexUpper[i] = ch) + 9

\* str.strip(): without the leading and trailing whitespace
RECURSIVE lstrip(_, _)
lstrip(t, ch) ==
    IF t # <<>> /\ Head(t) = ch THEN lstrip(Tail(t), ch) ELSE t

RECURSIVE rstrip(_, _)
rstrip(t, ch) ==
    IF t # <<>> /\ t[Len(t)] = ch THEN rstrip(SubSeq(t, 1, Len(t) - 1), ch) ELSE t

strip(t) == rstrip(lstrip(t, " "), " ")

\* hex_re: ^#([0-9a-fA-F]{6})$
hex_re_match(t) ==
    /\ Len(t) = 7
    /\ t[1] = "#"
    /\ \A i \in 2..7 : IsHexDigit(t[i])

\* colors.Color(r, g, b), each component kept as its numerator over 255
Color(r, g, b) == [r |-> r, g |-> g, b |-> b]

white == Color(255, 255, 255)

\* lines 131-139; FALSE stands for the ValueError
hex_to_color_raises(v) == ~hex_re_match(strip(v))

hex_to_color(v) ==
    LET d == lstrip(strip(v), "#")
    IN  Color(16 * HexValue(d[1]) + HexValue(d[2]),
              16 * HexValue(d[3]) + HexValue(d[4]),
              16 * HexValue(d[5]) + HexValue(d[6]))

\* lines 141-148: the keys whose value is a string that parses
LoadedKeys(data) ==
    {k \in DOMAIN data : data[k].type = "str" /\ ~hex_to_color_raises(data[k].s)}

\* line 157: dict.setdefault
setdefault(d, key, value) ==
    IF key \in DOMAIN d THEN d
    ELSE [k \in DOMAIN d \cup {key} |-> IF k = key THEN value ELSE d[k]]

\* lines 119-159
load_brand_colors(data) ==
    setdefault([k \in LoadedKeys(data) |-> hex_to_color(data[k].s)],
               "neutral_white", white)

----------------------------------------------------------------------------
(* templates/common.py: add_watermark on the canvas graphics state *)

A4W == 595

A4H == 842

DefaultOpacity == 12

\* max(0.0, min(opacity, 1.0)), in hundredths
ClampOpacity(opacity) ==
    IF opacity > 100 THEN 100 ELSE IF opacity < 0 THEN 0 ELSE opacity

\* c.saveState()
saveState(gs, stack) == Append(stack, gs)

\* c.translate(w / 2.0 - 150, h / 2.0 - 150)
translate(gs) ==
    [gs EXCEPT !.origin = <<gs.origin[1] + (A4W \div 2) - 150,
                            gs.origin[2] + (A4H \div 2) - 150>>]

\* lines 259-276: the fill alpha is set, or nothing happens (the canvas
\* has no setFillAlpha, or the call raised and the exception was dropped)
SetTransparencyOutcomes == {"set", "nothing"}

set_transparency(gs, alpha, outcome) ==
    IF outcome = "set" THEN [gs EXCEPT !.fill_alpha = alpha] ELSE gs

\* where add_watermark's try block is left: at its end, or by an
\* exception of translate or of drawImage
WatermarkExits == {"end", "translate", "drawImage"}

Drawing(what) == [what |-> what, origin |-> gstate.origin, alpha |-> gstate.fill_alpha]

----------------------------------------------------------------------------
(* generate() of board_resolution, contract_template, cover_page and       *)
(* watermark_template: the calls each makes, in order                      *)

Program(t) ==
    CASE t = "board_resolution" ->
             <<"load", "header", "watermark", "fill", "text", "footer", "page">>
      [] t = "contract_template" ->
             <<"load", "header", "watermark", "fill", "text", "footer", "page">>
      [] t = "cover_page" ->
             <<"load", "header", "fill", "text", "watermark", "footer", "page">>
      [] t = "watermark_template" ->
             <<"load", "header", "watermark", "footer", "page">>

At(call) ==
    /\ raised = "none"
    /\ step <= Len(Program(template))
    /\ Program(template)[step] = call

\* brand = load_brand_colors()
LoadBrandColors ==
    /\ At("load")
    /\ brand' = load_brand_colors(brand_json)
    /\ step' = step + 1
    /\ UNCHANGED <<template, brand_json, gstate, state_stack, drawn, raised>>
    /\ UNCHANGED flow_vars

\* draw_header(c, brand, ...): colours are read with brand.get
DrawHeader ==
    /\ At("header")
    /\ drawn' = Append(drawn, Drawing("header"))
    /\ step' = step + 1
    /\ UNCHANGED <<template, brand_json, brand, gstate, state_stack, raised>>
    /\ UNCHANGED flow_vars

\* lines 279-295: the whole call.  restoreState runs only when the try
\* block reaches its end; an exception is dropped by `except: pass`
AddWatermark ==
    /\ At("watermark")
    /\ \E outcome \in SetTransparencyOutcomes, exit \in WatermarkExits :
           LET saved   == saveState(gstate, state_stack)
               faded   == set_transparency(gstate, ClampOpacity(DefaultOpacity), outcome)
               shifted == translate(faded)
           IN  CASE exit = "translate" ->
                        /\ gstate' = faded
                        /\ state_stack' = saved
                        /\ drawn' = drawn
                 [] exit = "drawImage" ->
                        /\ gstate' = shifted
                        /\ state_stack' = saved
                        /\ drawn' = drawn
                 [] exit = "end" ->
                        /\ gstate' = saved[Len(saved)]
                        /\ state_stack' = SubSeq(saved, 1, Len(saved) - 1)
                        /\ drawn' = Append(drawn,
                               [what |-> "watermark", origin |-> shifted.origin,
                                alpha |-> shifted.fill_alpha])
    /\ step' = step + 1
    /\ UNCHANGED <<template, brand_json, brand, raised>>
    /\ UNCHANGED flow_vars

\* c.setFillColor(brand["warm_brown"])
SetFillWarmBrown ==
    /\ At("fill")
    /\ IF "warm_brown" \in DOMAIN brand
       THEN step' = step + 1 /\ raised' = raised
       ELSE step' = step /\ raised' = "KeyError"
    /\ UNCHANGED <<template, brand_json, brand, gstate, state_stack, drawn>>
    /\ UNCHANGED flow_vars

\* c.drawString / c.drawCentredString of the placeholder text
DrawBodyText ==
    /\ At("text")
    /\ drawn' = Append(drawn, Drawing("text"))
    /\ step' = step + 1
    /\ UNCHANGED <<template, brand_json, brand, gstate, state_stack, raised>>
    /\ UNCHANGED flow_vars

\* draw_footer(c, brand)
DrawFooter ==
    /\ At("footer")
    /\ drawn' = Append(drawn, Drawing("footer"))
    /\ step' = step + 1
    /\ UNCHANGED <<template, brand_json, brand, gstate, state_stack, raised>>
    /\ UNCHANGED flow_vars

\* c.showPage(); c.save()
ShowPage ==
    /\ At("page")
    /\ step' = step + 1
    /\ UNCHANGED <<template, brand_json, brand, gstate, state_stack, drawn, raised>>
    /\ UNCHANGED flow_vars

NextTemplate ==
    \/ LoadBrandColors
    \/ DrawHeader
    \/ AddWatermark
    \/ SetFillWarmBrown
    \/ DrawBodyText
    \/ DrawFooter
    \/ ShowPage

BrandKeys == {"warm_brown", "indigo", "neutral_white"}

\* values of the JSON object: two valid colours (one padded with blanks),
\* three strings that are no '#RRGGBB', and a value that is no string
BrandValues ==
    { Str(<<"#", "8", "b", "5", "E", "3", "c">>),
      Str(<<" ", "#", "F", "f", "0", "0", "9", "a", " ">>),
      Str(<<"#", "8", "b", "5", "E", "3">>),
      Str(<<"8", "b", "5", "E", "3", "c", "0">>),
      Str(<<"#", "8", "b", "5", "E", "3", "g">>),
      NotAString }

\* the body-text flow does not run
NoFlow ==
    /\ body_content = <<>>
    /\ available_width = 0
    /\ leading = 0
    /\ h = A4H
    /\ top_margin = 0
    /\ bottom_reserved = 0
    /\ body_start_y = 0
    /\ y = 0
    /\ text_y = 0
    /\ p_idx = 1
    /\ wrapped = <<>>
    /\ ln_idx = 1
    /\ pc = "done"
    /\ out = <<>>

InitTemplate ==
    /\ template \in {"board_resolution", "contract_template", "cover_page",
                     "watermark_template"}
    /\ step = 1
    /\ brand_json \in UNION {[K -> BrandValues] : K \in SUBSET BrandKeys}
    /\ brand = <<>>
    /\ gstate = InitialGState
    /\ state_stack = <<>>
    /\ drawn = <<>>
    /\ raised = "none"
    /\ NoFlow

SpecTemplate == InitTemplate /\ [][NextTemplate]_vars

----------------------------------------------------------------------------
(* Vocabulary of the properties *)

paragraph == body_content[p_idx]

Wrapping == pc \in {"line", "sep"}

RECURSIVE JoinWords(_)
JoinWords(ws) ==
    IF ws = <<>> THEN <<>>
    ELSE IF Len(ws) = 1 THEN ws[1]
    ELSE ws[1] \o <<" ">> \o JoinWords(Tail(ws))

RECURSIVE WordsOfLines(_)
WordsOfLines(lines) ==
    IF lines = <<>> THEN <<>>
    ELSE split(Head(lines)) \o WordsOfLines(Tail(lines))

LineIdx == {i \in DOMAIN out : out[i].op = "PlaceLine"}

BreakIdx == {i \in DOMAIN out : out[i].op = "PageBreak"}

BreakBefore(i) == i > 1 /\ out[i - 1].op = "PageBreak"

\* the placed line before / after the one at i (0: none)
PrevLine(i) ==
    LET S == {j \in LineIdx : j < i}
    IN  IF S = {} THEN 0 ELSE CHOOSE j \in S : \A k \in S : k <= j

NextLine(i) ==
    LET S == {j \in LineIdx : j > i}
    IN  IF S = {} THEN 0 ELSE CHOOSE j \in S : \A k \in S : j <= k

FirstY == IF body_start_y <= h - top_margin THEN body_start_y ELSE h - top_margin

\* where the cursor stands when the line at i comes up for placement
CursorBefore(i) ==
    IF PrevLine(i) = 0 THEN FirstY ELSE out[PrevLine(i)].y - leading

\* the line at i went through the pagination check
PlacedByCheck(i) ==
    IF CursorBefore(i) - leading < bottom_reserved
    THEN BreakBefore(i) /\ out[i].y = h - top_margin
    ELSE ~BreakBefore(i) /\ out[i].y = CursorBefore(i)

\* the line at i moved the cursor down by exactly one leading
AdvancesOneLeading(i) ==
    IF NextLine(i) = 0
    THEN y = out[i].y - leading
    ELSE CursorBefore(NextLine(i)) = out[i].y - leading /\ PlacedByCheck(NextLine(i))

----------------------------------------------------------------------------
C2_WordsPreserved ==
    Wrapping => WordsOfLines(wrapped) = split(paragraph)

\* a paragraph with surrounding blanks, wrapped by the fallback and by the
\* measured rule
C2_Witness ==
    /\ Wrapping
    /\ paragraph = <<" ", "?", " ", "a", " ">>
    /\ available_width = 22
    /\ wrapped = << <<"?", " ", "a">> >>

C10_FallbackDecides ==
    Wrapping =>
        /\ \A i \in 1..Len(wrapped) :
               LET ws == split(wrapped[i])
               IN  \A j \in 2..Len(ws) :
                       LET t == JoinWords(SubSeq(ws, 1, j))
                       IN  stringWidthRaises(t)
                               => Len(t) * font_size <= 2 * available_width
        /\ \A i \in 1..(Len(wrapped) - 1) :
               LET t == wrapped[i] \o <<" ">> \o split(wrapped[i + 1])[1]
               IN  stringWidthRaises(t)
                       => Len(t) * font_size > 2 * available_width
        /\ Len(WordsOfLines(wrapped)) = Len(split(paragraph))

\* the fallback keeps "? W" (3 <= 4 characters), closes the line before the
\* next word (5 > 4), and the measured rule goes on with the rest
C10_Witness ==
    /\ Wrapping
    /\ available_width = 22
    /\ paragraph = <<"?", " ", "W", " ", "a">>
    /\ wrapped = << <<"?", " ", "W">>, <<"a">> >>

(* C9 as stated: a word whose measured width exceeds available_width is   *)
(* alone on its line wherever it occurs, is kept whole, and its line goes  *)
(* through the pagination check and takes one leading like any other.      *)
WideWord(w) == ~stringWidthRaises(w) /\ stringWidth(w) > available_width

WideWordsWhole ==
    Wrapping =>
        SelectSeq(WordsOfLines(wrapped), WideWord) = SelectSeq(split(paragraph), WideWord)

WideLineLikeAnyLine ==
    \A i \in LineIdx :
        (\E k \in 1..Len(split(out[i].text)) : WideWord(split(out[i].text)[k]))
            => PlacedByCheck(i) /\ AdvancesOneLeading(i)

C9_WideWordAlone ==
    /\ WideWordsWhole
    /\ WideLineLikeAnyLine
    /\ \A i \in LineIdx :
           LET ws == split(out[i].text)
           IN  \A k \in 1..Len(ws) : WideWord(ws[k]) => out[i].text = ws[k]

(* C9 amended: the wide word is alone on its line whenever the measuring    *)
(* function can measure that line (a line it shares with other words was    *)
(* kept by the character-count fallback after the measuring call raised);   *)
(* it is kept whole, and its line goes through the pagination check and     *)
(* takes one leading like any other.                                        *)
C9_WideWordAloneWhenMeasured ==
    /\ WideWordsWhole
    /\ WideLineLikeAnyLine
    /\ \A i \in LineIdx :
           LET ws == split(out[i].text)
           IN  \A k \in 1..Len(ws) :
                   (WideWord(ws[k]) /\ ~stringWidthRaises(out[i].text))
                       => out[i].text = ws[k]

\* "a W a" in a 9-point column: the 10-point word is the second of three
\* lines, placed without a page break, and the third line follows a break
C9_Witness ==
    /\ pc = "done"
    /\ available_width = 9
    /\ body_content = << <<"a", " ", "W", " ", "a">> >>
    /\ Len(out) = 4
    /\ out[2].text = <<"W">>
    /\ out[3].op = "PageBreak"

----------------------------------------------------------------------------
(* C3 as stated: a page break precedes every line that would otherwise    *)
(* take the cursor under bottom_reserved, and no line is placed at a       *)
(* position from which the cursor falls under bottom_reserved.             *)
BreakBeforeOverflow ==
    \A i \in LineIdx :
        CursorBefore(i) - leading < bottom_reserved => BreakBefore(i)

NoLineIntoFooter ==
    \A i \in LineIdx : out[i].y - leading >= bottom_reserved

C3_CursorAboveFooter == BreakBeforeOverflow /\ NoLineIntoFooter

(* C3 amended: the same, for every geometry whose page holds at least one  *)
(* line (h - top_margin - leading >= bottom_reserved); on a shorter page   *)
(* the break is still emitted before the line.                             *)
C3_CursorAboveFooterOnUsablePage ==
    /\ BreakBeforeOverflow
    /\ (h - top_margin - leading >= bottom_reserved) => NoLineIntoFooter

\* a usable page on which the loop broke at least once and placed lines on
\* both pages
C3_Witness ==
    /\ pc = "done"
    /\ h - top_margin - leading >= bottom_reserved
    /\ BreakIdx # {}
    /\ \E i \in LineIdx : ~BreakBefore(i) /\ CursorBefore(i) - leading = bottom_reserved

(* C4: every page break is followed at once by a placed line, and that     *)
(* line is placed at h - top_margin.                                       *)
C4_LineAfterBreakAtTop ==
    \A i \in BreakIdx :
        /\ i < Len(out)
        /\ out[i + 1].op = "PlaceLine"
        /\ out[i + 1].y = h - top_margin

\* breaks before a wrapped line and before a separator, with a first page
\* that started below the top of the page
C4_Witness ==
    /\ pc = "done"
    /\ body_start_y < h - top_margin
    /\ \E i \in BreakIdx : out[i + 1].sep
    /\ \E i \in BreakIdx : ~out[i + 1].sep

(* C5 as stated: no page break is emitted exactly when the number of       *)
(* placed lines times leading is at most start_y - bottom_reserved, where  *)
(* start_y is the cursor when the loop is entered.                         *)
PlacedLines == Cardinality(LineIdx)

C5_NoBreakIffFits ==
    pc = "done" =>
        ((BreakIdx = {}) <=> (PlacedLines * leading <= FirstY - bottom_reserved))

(* C5 amended: for a non-empty paragraph list, no page break is emitted    *)
(* exactly when the number of placed lines times leading is at most        *)
(* start_y - bottom_reserved; for an empty list none is emitted.           *)
C5_NoBreakIffFitsNonEmpty ==
    pc = "done" =>
        IF body_content = <<>>
        THEN BreakIdx = {}
        ELSE (BreakIdx = {}) <=> (PlacedLines * leading <= FirstY - bottom_reserved)

\* the lines fill the first page exactly and no break is emitted
C5_Witness ==
    /\ pc = "done"
    /\ PlacedLines >= 3
    /\ PlacedLines * leading = FirstY - bottom_reserved
    /\ BreakIdx = {}

(* C6: after the loop, each of the first n-1 paragraphs has exactly one    *)
(* separator line and the last paragraph has none.                         *)
SeparatorsOf(p) == {i \in LineIdx : out[i].sep /\ out[i].para = p}

C6_OneSeparatorBetween ==
    pc = "done" =>
        \A p \in 1..Len(body_content) :
            Cardinality(SeparatorsOf(p)) = IF p < Len(body_content) THEN 1 ELSE 0

(* C7: every paragraph without words gets exactly one line, that line is   *)
(* empty, it goes through the pagination check and it moves the cursor     *)
(* down by one leading.                                                    *)
LinesOf(p) == {i \in LineIdx : ~out[i].sep /\ out[i].para = p}

C7_BlankParagraphOneLine ==
    pc = "done" =>
        \A p \in 1..Len(body_content) :
            split(body_content[p]) = <<>> =>
                /\ Cardinality(LinesOf(p)) = 1
                /\ \A i \in LinesOf(p) :
                       /\ out[i].text = <<>>
                       /\ PlacedByCheck(i)
                       /\ AdvancesOneLeading(i)

\* an empty and a whitespace-only paragraph; the line of one of them
\* opens a new page
C7_Witness ==
    /\ pc = "done"
    /\ Len(body_content) = 3
    /\ body_content[1] = <<>>
    /\ body_content[2] = <<" ">>
    /\ \E i \in LinesOf(2) : BreakBefore(i)

----------------------------------------------------------------------------
(* The loop under any geometry, column width and leading of either sign    *)
(* included.  The loop is straight-line code in one thread: a step that    *)
(* is enabled is taken.                                                    *)

PoolAnyGeometry == Pool \cup { <<"?", " ", "a">> }

InitAnyGeometry ==
    /\ body_content \in SeqsUpTo(PoolAnyGeometry, MaxParas - 1)
    /\ available_width \in {-3, 0, 9}
    /\ leading \in {-1, 0, 1}
    /\ h = PageH
    /\ top_margin \in {1, PageH - 1}
    /\ bottom_reserved = 2
    /\ body_start_y \in {1, PageH}
    /\ LoopEntry
    /\ NoTemplate

SpecAnyGeometry == InitAnyGeometry /\ [][Next]_vars /\ WF_vars(Next)

RECURSIVE CountWords(_)
CountWords(paras) ==
    IF paras = <<>> THEN 0
    ELSE Len(split(Head(paras))) + CountWords(Tail(paras))

EmptyParagraphs == {p \in DOMAIN body_content : split(body_content[p]) = <<>>}

OutputBounded ==
    /\ Cardinality({i \in LineIdx : ~out[i].sep})
           <= CountWords(body_content) + Cardinality(EmptyParagraphs)
    /\ Cardinality({i \in LineIdx : out[i].sep}) <= Len(body_content)
    /\ Cardinality(BreakIdx) <= Cardinality(LineIdx)

(* C11: for every paragraph list and every geometry the loop ends, and at  *)
(* every moment it has placed at most one line per word plus one per       *)
(* empty paragraph, at most one separator per paragraph, and at most one   *)
(* page break per placed line.                                             *)
C11_TerminatesBounded == <>(pc = "done") /\ []OutputBounded

\* zero leading on a page too short for one line: every line opens a page
C11_Witness ==
    /\ pc = "done"
    /\ leading = 0
    /\ h - top_margin - leading < bottom_reserved
    /\ Cardinality(BreakIdx) >= 3

(* C12: with a column width or a leading that is not positive nothing is   *)
(* wrapped, nothing is placed and no page break is emitted.                *)
C12_NoLayoutOnBadGeometry ==
    (available_width <= 0 \/ leading <= 0) => (wrapped = <<>> /\ out = <<>>)

----------------------------------------------------------------------------
(* C13: whatever the JSON object holds, the mapping load_brand_colors      *)
(* returns has the keys the templates index, "warm_brown" and "indigo",    *)
(* and no template's generate() ends in a KeyError.                        *)
BrandLoaded == template # "none" /\ step > 1

C13_TemplateKeysLoaded ==
    BrandLoaded =>
        /\ {"warm_brown", "indigo"} \subseteq DOMAIN brand
        /\ raised # "KeyError"

(* C14: once add_watermark has returned, the stack of saved states is as   *)
(* it was before the call, the graphics state is the one before the call,  *)
(* and everything drawn outside add_watermark is drawn at the page origin  *)
(* with full opacity.                                                      *)
WatermarkReturned ==
    /\ template # "none"
    /\ \E i \in 1..(step - 1) : Program(template)[i] = "watermark"

C14_WatermarkRestoresState ==
    WatermarkReturned =>
        /\ state_stack = <<>>
        /\ gstate = InitialGState
        /\ \A i \in DOMAIN drawn :
               drawn[i].what # "watermark" =>
                   drawn[i].origin = <<0, 0>> /\ drawn[i].alpha = 100

====
